---- MODULE Spec2Model ----
(***************************************************************************)
(* Credit scoring project: the Flask prediction service (app.py) and the   *)
(* Streamlit dashboard (dashboard.py).                                     *)
(*                                                                         *)
(* Numbers.  A probability is the integer k standing for k / PDenom.  A    *)
(* payload value is a record [num, den] standing for num / den (Python     *)
(* ints have den = 1; the true division of line 74 yields den = 600).      *)
(* A JSON value that is not a number is the record [text |-> ...].         *)
(***************************************************************************)
EXTENDS Integers, Sequences, FiniteSets, TLC

VARIABLES
    \* --- app.py: the prediction service ---
    svc_pc,              \* "boot" before lines 10-20 ran, then "serving"
    model,               \* app.py global model
    scaler,              \* app.py global scaler
    training_columns,    \* app.py global training_columns
    load_failed,         \* history: an except branch of lines 15-20 ran
    status_response,     \* what the last GET /status returned
    last_response,       \* what the last POST /predict returned
    \* --- dashboard.py: the front end ---
    dashboard_columns,   \* dashboard.py global training_columns (line 20)
    session,             \* st.session_state: user_inputs, prediction_result
    shown,               \* what the last script run displayed (lines 199-234)
    error_shown,         \* the last script run called st.error (line 195)
    api_calls,           \* requests.post calls made by the last script run
    last_outcome,        \* history: outcome of the latest submission
    result_inputs,       \* history: inputs of the latest successful submission
    replaced,            \* history: state of prediction_result before the latest submission
    \* --- the pure functions applied on their own ---
    fn_pc,               \* "init" or "done"
    prob1, prob2,        \* two probabilities, prob1 <= prob2
    score1, score2,      \* probability_to_score of each
    inputs,              \* an applicant input dict
    known_columns,       \* a column list for map_to_full_payload
    full_payload,        \* result of map_to_full_payload
    analysis             \* result of get_rejection_analysis_and_suggestions

svc_vars == <<svc_pc, model, scaler, training_columns, load_failed,
              status_response, last_response>>
fe_vars == <<dashboard_columns, session, shown, error_shown, api_calls,
             last_outcome, result_inputs, replaced>>
fn_vars == <<fn_pc, prob1, prob2, score1, score2, inputs, known_columns,
             full_payload, analysis>>
vars == <<svc_vars, fe_vars, fn_vars>>

----------------------------------------------------------------------------
(* Bounds of the model *)

\* probabilities are the grid 0/PDenom .. PDenom/PDenom
PDenom == 34
\* how many values each applicant field takes on either side of its threshold
Spread == 1

----------------------------------------------------------------------------
(* Python arithmetic *)

\* int(n / d) for d > 0: truncation toward zero
IntTrunc(n, d) == IF n >= 0 THEN n \div d ELSE -((-n) \div d)

\* round(n / d) for n >= 0, d > 0: to nearest, ties to even
PyRound(n, d) ==
    LET q == n \div d
        r == n % d
    IN  IF 2 * r < d THEN q
        ELSE IF 2 * r > d THEN q + 1
        ELSE IF q % 2 = 0 THEN q ELSE q + 1

Num(n) == [num |-> n, den |-> 1]
Frac(n, d) == [num |-> n, den |-> d]
IsNumber(v) == "num" \in DOMAIN v
IsZero(v) == IsNumber(v) /\ v.num = 0

Range(s) == {s[i] : i \in 1..Len(s)}

\* dict.get(key, default)
Get(d, key, default) == IF key \in DOMAIN d THEN d[key] ELSE default

----------------------------------------------------------------------------
(* app.py lines 23-26 *)

probability_to_score_Rounding(prob_of_default) ==
    300 + PyRound(600 * (PDenom - prob_of_default), PDenom)

probability_to_score_Offset(prob_of_default) ==
    IntTrunc(300 * PDenom + 600 * prob_of_default, PDenom)

\* score = 300 + (600 * (1 - prob_of_default)); return int(score)
probability_to_score(prob_of_default) ==
    IntTrunc(300 * PDenom + 600 * (PDenom - prob_of_default), PDenom)

----------------------------------------------------------------------------
(* dashboard.py lines 24-60: the rejection rule engine *)

ReasonCibil == "Low CIBIL Score"
ReasonDti == "High Debt-to-Income Ratio"
ReasonEmp == "Short Employment History"
ReasonLoan == "High Loan Amount Relative to Income"
ReasonLoanCount == "High Number of Existing Loans"
ReasonDebt == "High Existing Debt Burden"
ReasonFallback == "Overall Profile Risk"

SuggestCibil == "Improve your CIBIL score by paying all existing bills and EMIs on time without any delays."
SuggestDti == "The proposed monthly payment is high for your current income. Consider reducing the loan amount or extending the loan tenure to lower the EMI."
SuggestEmp == "Lenders prefer applicants with a stable employment history of at least 1-2 years. Building a longer track record at your current job will help."
SuggestLoan == "The requested loan amount is very high compared to your annual income."
SuggestLoanCount == "Having multiple active loans can indicate high financial leverage. It's advisable to close some existing loans before applying for new ones."
SuggestDebt == "Your existing outstanding loan amount is high compared to your income. Reducing this debt will significantly improve your eligibility."
SuggestFallback == "While individual factors may be acceptable, your overall profile combination is assessed as high-risk by the model. Improving your CIBIL score is the most effective way to boost your eligibility."

\* reasons.append(reason); suggestions.append(suggestion)
AppendBoth(a, reason, suggestion) ==
    [reasons |-> Append(a.reasons, reason),
     suggestions |-> Append(a.suggestions, suggestion)]

\* line 34: (annual_emi / inputs['income']) if inputs['income'] > 0 else 1
dti_ratio(i) ==
    LET annual_emi == i["annuity"] * 12
    IN  IF i["income"] > 0 THEN Frac(annual_emi, i["income"]) ELSE Frac(1, 1)

\* a plausible slip: the rules chained with elif, the first match wins
get_rejection_ShortCircuit(i) ==
    LET a0 == [reasons |-> <<>>, suggestions |-> <<>>]
        dti == dti_ratio(i)
        a1 == IF i["cibil"] < 650 THEN AppendBoth(a0, ReasonCibil, SuggestCibil)
              ELSE IF 2 * dti.num > dti.den THEN AppendBoth(a0, ReasonDti, SuggestDti)
              ELSE IF i["emp"] < 1 THEN AppendBoth(a0, ReasonEmp, SuggestEmp)
              ELSE IF i["loan_amount"] > i["income"] * 5
                   THEN AppendBoth(a0, ReasonLoan, SuggestLoan)
              ELSE a0
    IN  IF a1.reasons = <<>> THEN AppendBoth(a1, ReasonFallback, SuggestFallback)
        ELSE a1

\* a plausible slip: the fallback appended without the "if not reasons" test
get_rejection_AlwaysFallback(i) ==
    LET a0 == [reasons |-> <<>>, suggestions |-> <<>>]
        dti == dti_ratio(i)
        a1 == IF i["cibil"] < 650 THEN AppendBoth(a0, ReasonCibil, SuggestCibil) ELSE a0
        a2 == IF 2 * dti.num > dti.den THEN AppendBoth(a1, ReasonDti, SuggestDti) ELSE a1
        a3 == IF i["emp"] < 1 THEN AppendBoth(a2, ReasonEmp, SuggestEmp) ELSE a2
        a4 == IF i["loan_amount"] > i["income"] * 5
              THEN AppendBoth(a3, ReasonLoan, SuggestLoan) ELSE a3
        a5 == IF Get(i, "has_prev_loans", FALSE) /\ Get(i, "prev_loan_count", 0) > 3
              THEN AppendBoth(a4, ReasonLoanCount, SuggestLoanCount) ELSE a4
        a6 == IF Get(i, "has_prev_loans", FALSE)
                 /\ Get(i, "prev_outstanding_amt", 0) > i["income"] * 2
              THEN AppendBoth(a5, ReasonDebt, SuggestDebt) ELSE a5
    IN  AppendBoth(a6, ReasonFallback, SuggestFallback)

get_rejection_analysis_and_suggestions(i) ==
    LET a0 == [reasons |-> <<>>, suggestions |-> <<>>]
        \* line 29
        a1 == IF i["cibil"] < 650 THEN AppendBoth(a0, ReasonCibil, SuggestCibil) ELSE a0
        \* lines 33-36: dti_ratio > 0.5
        dti == dti_ratio(i)
        a2 == IF 2 * dti.num > dti.den THEN AppendBoth(a1, ReasonDti, SuggestDti) ELSE a1
        \* line 40
        a3 == IF i["emp"] < 1 THEN AppendBoth(a2, ReasonEmp, SuggestEmp) ELSE a2
        \* line 44
        a4 == IF i["loan_amount"] > i["income"] * 5
              THEN AppendBoth(a3, ReasonLoan, SuggestLoan) ELSE a3
        \* lines 48-54
        a5 == IF Get(i, "has_prev_loans", FALSE) /\ Get(i, "prev_loan_count", 0) > 3
              THEN AppendBoth(a4, ReasonLoanCount, SuggestLoanCount) ELSE a4
        a6 == IF Get(i, "has_prev_loans", FALSE)
                 /\ Get(i, "prev_outstanding_amt", 0) > i["income"] * 2
              THEN AppendBoth(a5, ReasonDebt, SuggestDebt) ELSE a5
    IN  \* lines 56-58
        IF a6.reasons = <<>> THEN AppendBoth(a6, ReasonFallback, SuggestFallback)
        ELSE a6

\* dashboard.py lines 62-69
get_approval_suggestions ==
    << "Continue paying all your bills and EMIs on time without fail.",
       "Keep your credit utilization ratio low (ideally below 30%).",
       "Avoid applying for multiple new loans or credit cards in a short period.",
       "Regularly review your full credit report for any errors." >>

----------------------------------------------------------------------------
(* dashboard.py lines 71-86: the feature mapper *)

\* base[key] = value
DictSet(d, key, value) ==
    [k \in DOMAIN d \cup {key} |-> IF k = key THEN value ELSE d[k]]

map_to_full_payload(i, columns) ==
    LET b0 == [col \in Range(columns) |-> Num(0)]
        b1 == DictSet(b0, "CIBIL_SCORE", Frac(i["cibil"] - 300, 600))
        b2 == DictSet(b1, "DAYS_BIRTH", Num((-i["age"]) * 365))
        b3 == DictSet(b2, "DAYS_EMPLOYED", Num((-i["emp"]) * 365))
        b4 == DictSet(b3, "AMT_INCOME_TOTAL", Num(i["income"]))
        b5 == DictSet(b4, "AMT_CREDIT", Num(i["loan_amount"]))
        b6 == DictSet(b5, "AMT_ANNUITY", Num(i["annuity"]))
    IN  IF Get(i, "has_prev_loans", FALSE)
        THEN LET b7 == DictSet(b6, "PREV_LOAN_COUNT", Num(Get(i, "prev_loan_count", 0)))
                 b8 == DictSet(b7, "PREV_AMT_OUTSTANDING",
                               Num(Get(i, "prev_outstanding_amt", 0)))
             IN  DictSet(b8, "PREV_REMAINING_EMI", Num(Get(i, "prev_remaining_emi", 0)))
        ELSE b6

----------------------------------------------------------------------------
(* Input domains *)

NoDict == [none |-> TRUE]

\* column lists of training_columns.joblib; the trained feature set holds the
\* columns the dashboard fills and further columns it leaves at 0
FullColumns ==
    << "CIBIL_SCORE", "DAYS_BIRTH", "DAYS_EMPLOYED", "AMT_INCOME_TOTAL",
       "AMT_CREDIT", "AMT_ANNUITY", "PREV_LOAN_COUNT", "PREV_AMT_OUTSTANDING",
       "PREV_REMAINING_EMI", "OTHER_COLUMN" >>
NoPrevColumns ==
    << "OTHER_COLUMN", "CIBIL_SCORE", "DAYS_BIRTH", "DAYS_EMPLOYED",
       "AMT_INCOME_TOTAL", "AMT_CREDIT", "AMT_ANNUITY" >>
NoCibilColumns ==
    << "DAYS_BIRTH", "DAYS_EMPLOYED", "AMT_INCOME_TOTAL", "AMT_CREDIT",
       "AMT_ANNUITY", "PREV_LOAN_COUNT", "PREV_AMT_OUTSTANDING",
       "PREV_REMAINING_EMI", "OTHER_COLUMN" >>
OnlyOtherColumns == << "OTHER_COLUMN" >>

ColumnLists == {FullColumns, NoPrevColumns, NoCibilColumns, OnlyOtherColumns}
ServiceColumnLists == {FullColumns, NoPrevColumns}

\* applicant fields around the thresholds of the rule engine
CibilValues == (650 - Spread) .. (649 + Spread)
EmpValues == 0 .. Spread
IncomeValues == {0} \cup {120 * n : n \in 1..Spread}
AnnuityValues == {5 * n : n \in 0..Spread} \cup {5 * n + 1 : n \in 0..Spread}
LoanValues == {600 * n : n \in 1..Spread} \cup {600 * n + 1 : n \in 1..Spread}
PrevCountValues == (4 - Spread) .. (3 + Spread)
PrevOutstandingValues == {240 * n : n \in 1..Spread} \cup {240 * n + 1 : n \in 1..Spread}

\* dicts that lack the optional keys read with inputs.get
ShortInputs ==
    [cibil : CibilValues, age : {30}, emp : EmpValues, income : IncomeValues,
     loan_amount : LoanValues, annuity : AnnuityValues]
FullInputs ==
    [cibil : CibilValues, age : {30}, emp : EmpValues, income : IncomeValues,
     loan_amount : LoanValues, annuity : AnnuityValues,
     has_prev_loans : BOOLEAN, prev_loan_count : PrevCountValues,
     prev_outstanding_amt : PrevOutstandingValues, prev_remaining_emi : {12}]
ApplicantInputs == ShortInputs \cup FullInputs

----------------------------------------------------------------------------
(* The pure functions applied on their own *)

IdleFn ==
    /\ fn_pc = "idle"
    /\ prob1 = 0 /\ prob2 = 0 /\ score1 = 0 /\ score2 = 0
    /\ inputs = NoDict /\ known_columns = <<>>
    /\ full_payload = NoDict /\ analysis = NoDict

InitScore ==
    /\ fn_pc = "init"
    /\ prob1 \in 0..PDenom /\ prob2 \in prob1..PDenom
    /\ score1 = 0 /\ score2 = 0
    /\ inputs = NoDict /\ known_columns = <<>>
    /\ full_payload = NoDict /\ analysis = NoDict

ConvertScores ==
    /\ fn_pc = "init"
    /\ score1' = probability_to_score(prob1)
    /\ score2' = probability_to_score(prob2)
    /\ fn_pc' = "done"
    /\ UNCHANGED <<prob1, prob2, inputs, known_columns, full_payload, analysis>>

InitRules ==
    /\ fn_pc = "init"
    /\ prob1 = 0 /\ prob2 = 0 /\ score1 = 0 /\ score2 = 0
    /\ inputs \in ApplicantInputs /\ known_columns = <<>>
    /\ full_payload = NoDict /\ analysis = NoDict

EvaluateRules ==
    /\ fn_pc = "init"
    /\ analysis' = get_rejection_analysis_and_suggestions(inputs)
    /\ fn_pc' = "done"
    /\ UNCHANGED <<prob1, prob2, score1, score2, inputs, known_columns, full_payload>>

InitMap ==
    /\ fn_pc = "init"
    /\ prob1 = 0 /\ prob2 = 0 /\ score1 = 0 /\ score2 = 0
    /\ inputs \in ApplicantInputs /\ known_columns \in ColumnLists
    /\ full_payload = NoDict /\ analysis = NoDict

MapPayload ==
    /\ fn_pc = "init"
    /\ full_payload' = map_to_full_payload(inputs, known_columns)
    /\ fn_pc' = "done"
    /\ UNCHANGED <<prob1, prob2, score1, score2, inputs, known_columns, analysis>>

----------------------------------------------------------------------------
(* app.py: the prediction service *)

\* a module global is None or the object joblib.load returned
None == [loaded |-> FALSE]
Loaded(v) == [loaded |-> TRUE, value |-> v]

\* truth value of an estimator object or None (no __bool__, no __len__)
Truthy(a) == a.loaded
\* truth value of a list or None
ListTruthy(a) == a.loaded /\ Len(a.value) > 0

\* lines 10-20: the three joblib.load calls in order; fail_at = 0 when none
\* raises, else the number of the call that raises (either except branch)
load_assets(fail_at, cols) ==
    IF fail_at = 0
    THEN [model |-> Loaded("lgbm_model.joblib"),
          scaler |-> Loaded("scaler.joblib"),
          training_columns |-> Loaded(cols)]
    ELSE [model |-> None, scaler |-> None, training_columns |-> None]

\* lines 29-35
status(m, s, cols) ==
    IF Truthy(m) /\ Truthy(s) /\ ListTruthy(cols)
    THEN [status |-> 200,
          json |-> [status |-> "ok",
                    message |-> "API is online and all assets are loaded."]]
    ELSE [status |-> 500,
          json |-> [status |-> "error",
                    message |-> "API is running, but some assets failed to load."]]

\* an HTTP request body: not JSON at all, or a JSON object
MalformedRequest == [is_json |-> FALSE, data |-> NoDict]
JsonRequest(data) == [is_json |-> TRUE, data |-> data]

NotLoadedResponse ==
    [status |-> 500,
     json |-> [error |-> "Model is not loaded properly. Cannot make predictions."],
     body_read |-> FALSE, scaler_called |-> FALSE, classifier_called |-> FALSE]

\* line 57, reached from the except of line 55
FailedResponse(scaled, classified) ==
    [status |-> 500,
     json |-> [error |-> "Prediction failed"],
     body_read |-> TRUE, scaler_called |-> scaled, classifier_called |-> classified]

\* the try block of lines 43-57; prob_default is what predict_proba returns
predict_try(cols, req, prob_default) ==
    IF ~req.is_json
    THEN FailedResponse(FALSE, FALSE)                 \* line 44 raises
    ELSE IF ~(Range(cols.value) \subseteq DOMAIN req.data)
    THEN FailedResponse(FALSE, FALSE)                 \* line 46 raises KeyError
    ELSE IF \E col \in Range(cols.value) : ~IsNumber(req.data[col])
    THEN FailedResponse(TRUE, FALSE)                  \* line 47 raises ValueError
    ELSE [status |-> 200,
          json |-> [probability_of_default |-> prob_default,
                    credit_score |-> probability_to_score(prob_default)],
          body_read |-> TRUE, scaler_called |-> TRUE, classifier_called |-> TRUE]

\* a plausible slip: the guard of lines 40-41 left out
predict_NoGuard(m, s, cols, req, prob_default) ==
    IF cols.loaded /\ m.loaded /\ s.loaded
    THEN predict_try(cols, req, prob_default)
    ELSE FailedResponse(FALSE, FALSE)

\* lines 37-57
predict(m, s, cols, req, prob_default) ==
    IF ~(Truthy(m) /\ Truthy(s) /\ ListTruthy(cols))
    THEN NotLoadedResponse
    ELSE predict_try(cols, req, prob_default)

NoResponse == [status |-> 0]

\* bodies a client may post
SampleInput ==
    [cibil |-> 600, age |-> 30, emp |-> 5, income |-> 500000,
     loan_amount |-> 1000000, annuity |-> 25000, has_prev_loans |-> TRUE,
     prev_loan_count |-> 1, prev_outstanding_amt |-> 200000,
     prev_remaining_emi |-> 12]
WellFormedBodies == {map_to_full_payload(SampleInput, FullColumns)}
MissingColumnBodies ==
    {[k \in DOMAIN b \ {"AMT_CREDIT"} |-> b[k]] : b \in WellFormedBodies}
TextValueBodies ==
    {[b EXCEPT !["AMT_CREDIT"] = [text |-> "a lot"]] : b \in WellFormedBodies}
ClientRequests ==
    {MalformedRequest}
    \cup {JsonRequest(b) : b \in WellFormedBodies \cup MissingColumnBodies \cup TextValueBodies}

IdleSvc ==
    /\ svc_pc = "off"
    /\ model = None /\ scaler = None /\ training_columns = None
    /\ load_failed = FALSE
    /\ status_response = NoResponse /\ last_response = NoResponse

InitSvc ==
    /\ svc_pc = "boot"
    /\ model = None /\ scaler = None /\ training_columns = None
    /\ load_failed = FALSE
    /\ status_response = NoResponse /\ last_response = NoResponse

\* process start: lines 10-20, then app.run
LoadAssets ==
    /\ svc_pc = "boot"
    /\ \E fail_at \in 0..3, cols \in ServiceColumnLists :
          LET g == load_assets(fail_at, cols)
          IN  /\ model' = g.model
              /\ scaler' = g.scaler
              /\ training_columns' = g.training_columns
              /\ load_failed' = (fail_at # 0)
    /\ svc_pc' = "serving"
    /\ UNCHANGED <<status_response, last_response>>

\* GET /status
Status ==
    /\ svc_pc = "serving"
    /\ status_response' = status(model, scaler, training_columns)
    /\ UNCHANGED <<svc_pc, model, scaler, training_columns, load_failed, last_response>>

\* POST /predict from any client
PredictRequest ==
    /\ svc_pc = "serving"
    /\ \E req \in ClientRequests, prob_default \in 0..PDenom :
          last_response' = predict(model, scaler, training_columns, req, prob_default)
    /\ UNCHANGED <<svc_pc, model, scaler, training_columns, load_failed, status_response>>

----------------------------------------------------------------------------
(* dashboard.py: the front end *)

\* a key of st.session_state: absent, None, or set to a value
Absent == [state |-> "absent"]
PyNone == [state |-> "none"]
Value(v) == [state |-> "set", value |-> v]

\* widget values a submission can carry (lines 143-172): without existing
\* loans the three prev_* values are the constants of line 172
WidgetInputs ==
    [cibil : {600, 750}, age : {30}, emp : {5}, income : {0, 500000},
     loan_amount : {1000000}, annuity : {25000}, has_prev_loans : {FALSE},
     prev_loan_count : {0}, prev_outstanding_amt : {0}, prev_remaining_emi : {0}]
    \cup
    [cibil : {600, 750}, age : {30}, emp : {5}, income : {0, 500000},
     loan_amount : {1000000}, annuity : {25000}, has_prev_loans : {TRUE},
     prev_loan_count : {1, 5}, prev_outstanding_amt : {200000},
     prev_remaining_emi : {12}]

\* probabilities the classifier returns to the dashboard: the extremes and the
\* two grid points around the eligibility threshold (scores 670 and 652)
ClassifierOutputs == {0, 13, 14, PDenom}

\* what requests.post and raise_for_status do with the round trip:
\* net is "ok", "timeout" or "connection_error"; reply is the service's response
RequestFails(net, reply) == net # "ok" \/ reply.status >= 400

\* a plausible slip: line 196 left out, the stored result survives a failure
predict_button_handler_KeepStale(sess, user_inputs, net, reply) ==
    [session |->
        [user_inputs |-> Value(user_inputs),
         prediction_result |->
            IF RequestFails(net, reply) THEN sess.prediction_result
            ELSE Value(reply.json)],
     error |-> RequestFails(net, reply),
     calls |-> 1]

\* a plausible slip: user_inputs stored only when the key is not yet in the session
predict_button_handler_InputsOnce(sess, user_inputs, net, reply) ==
    [session |->
        [user_inputs |-> IF sess.user_inputs.state = "absent" THEN Value(user_inputs)
                         ELSE sess.user_inputs,
         prediction_result |->
            IF RequestFails(net, reply) THEN PyNone
            ELSE Value(reply.json)],
     error |-> RequestFails(net, reply),
     calls |-> 1]

\* lines 176-196: one requests.post, no loop around it
predict_button_handler(sess, user_inputs, net, reply) ==
    [session |->
        [user_inputs |-> Value(user_inputs),                        \* line 185
         prediction_result |->
            IF RequestFails(net, reply) THEN PyNone                 \* line 196
            ELSE Value(reply.json)],                                \* line 193
     error |-> RequestFails(net, reply),                            \* line 195
     calls |-> 1]                                                   \* line 191

\* lines 88-135: what the document holds
generate_pdf_report(score, prob, eligibility, reasons, suggestions) ==
    [score |-> score,
     eligibility |-> eligibility,
     reasons_title |-> IF reasons # <<>> THEN "Key Factors for Ineligibility" ELSE "",
     reasons |-> reasons,
     suggestions_title |->
        IF suggestions = <<>> THEN ""
        ELSE IF reasons # <<>> THEN "Suggestions for Improvement"
        ELSE "Recommendations to Maintain Your Good Score",
     suggestions |-> suggestions]

NoDisplay == [displayed |-> FALSE]

Display(score, prob, eligibility, reasons, suggestions, engine_called) ==
    [displayed |-> TRUE, score |-> score, prob |-> prob,
     eligibility |-> eligibility, reasons |-> reasons,
     suggestions |-> suggestions, engine_called |-> engine_called,
     report |-> generate_pdf_report(score, prob, eligibility, reasons, suggestions),
     file_name |-> score]

\* a plausible slip: the threshold compared with > instead of >=
display_results_Strict(sess) ==
    IF sess.prediction_result.state # "set" THEN NoDisplay
    ELSE LET result == sess.prediction_result.value
             score == result.credit_score
             prob == result.probability_of_default
         IN  IF score > 670
             THEN Display(score, prob, "Eligible for Loan", <<>>,
                          get_approval_suggestions, FALSE)
             ELSE LET a == get_rejection_analysis_and_suggestions(sess.user_inputs.value)
                  IN  Display(score, prob, "Not Eligible for Loan", a.reasons,
                              a.suggestions, TRUE)

\* lines 199-234
display_results(sess) ==
    IF sess.prediction_result.state # "set" THEN NoDisplay          \* line 199
    ELSE LET result == sess.prediction_result.value
             score == result.credit_score
             prob == result.probability_of_default
         IN  IF score >= 670
             THEN Display(score, prob, "Eligible for Loan", <<>>,
                          get_approval_suggestions, FALSE)
             ELSE LET a == get_rejection_analysis_and_suggestions(sess.user_inputs.value)
                  IN  Display(score, prob, "Not Eligible for Loan", a.reasons,
                              a.suggestions, TRUE)

IdleFe ==
    /\ dashboard_columns = <<>>
    /\ session = [user_inputs |-> Absent, prediction_result |-> Absent]
    /\ shown = NoDisplay /\ error_shown = FALSE /\ api_calls = 0
    /\ last_outcome = "none" /\ result_inputs = NoDict /\ replaced = "absent"

InitFe ==
    /\ dashboard_columns \in ServiceColumnLists
    /\ session = [user_inputs |-> Absent, prediction_result |-> Absent]
    /\ shown = NoDisplay /\ error_shown = FALSE /\ api_calls = 0
    /\ last_outcome = "none" /\ result_inputs = NoDict /\ replaced = "absent"

\* a script run with the form submitted: lines 176-196, then lines 199-234
Submit ==
    \E user_inputs \in WidgetInputs, net \in {"ok", "timeout", "connection_error"} :
    \E prob_default \in (IF net = "ok" THEN ClassifierOutputs ELSE {0}) :
        /\ svc_pc = "boot" => net = "connection_error"
        /\ LET full_payload_ == map_to_full_payload(user_inputs, dashboard_columns)
               reply == IF net = "ok"
                        THEN predict(model, scaler, training_columns,
                                     JsonRequest(full_payload_), prob_default)
                        ELSE NoResponse
               h == predict_button_handler(session, user_inputs, net, reply)
           IN  /\ session' = h.session
               /\ error_shown' = h.error
               /\ api_calls' = h.calls
               /\ shown' = display_results(h.session)
               /\ last_outcome' = IF RequestFails(net, reply) THEN "failed" ELSE "ok"
               /\ result_inputs' = IF RequestFails(net, reply) THEN result_inputs
                                   ELSE user_inputs
               /\ replaced' = session.prediction_result.state
        /\ UNCHANGED <<svc_vars, dashboard_columns, fn_vars>>

\* a script run without submission (any other widget interaction)
Rerun ==
    /\ shown' = display_results(session)
    /\ error_shown' = FALSE
    /\ api_calls' = 0
    /\ UNCHANGED <<svc_vars, dashboard_columns, session, last_outcome,
                   result_inputs, replaced, fn_vars>>

----------------------------------------------------------------------------
(* Specifications *)

\* the dashboard with the service behind it
Init == InitSvc /\ InitFe /\ IdleFn
Next ==
    \/ LoadAssets /\ UNCHANGED <<fe_vars, fn_vars>>
    \/ Submit
    \/ Rerun
Spec == Init /\ [][Next]_vars

\* the service and its HTTP clients
InitService == InitSvc /\ IdleFe /\ IdleFn
NextService ==
    \/ LoadAssets /\ UNCHANGED <<fe_vars, fn_vars>>
    \/ Status /\ UNCHANGED <<fe_vars, fn_vars>>
    \/ PredictRequest /\ UNCHANGED <<fe_vars, fn_vars>>
SpecService == InitService /\ [][NextService]_vars

\* probability_to_score on every pair of grid probabilities
InitScoreSpec == IdleSvc /\ IdleFe /\ InitScore
NextScore == ConvertScores /\ UNCHANGED <<svc_vars, fe_vars>>
SpecScore == InitScoreSpec /\ [][NextScore]_vars

\* the rule engine on every applicant input
InitRulesSpec == IdleSvc /\ IdleFe /\ InitRules
NextRules == EvaluateRules /\ UNCHANGED <<svc_vars, fe_vars>>
SpecRules == InitRulesSpec /\ [][NextRules]_vars

\* the feature mapper on every applicant input and column list
InitMapSpec == IdleSvc /\ IdleFe /\ InitMap
NextMap == MapPayload /\ UNCHANGED <<svc_vars, fe_vars>>
SpecMap == InitMapSpec /\ [][NextMap]_vars

----------------------------------------------------------------------------
(* Properties *)

\* C1: for every probability in [0,1] probability_to_score is an integer in
\* [300,900]; it is non-increasing in the probability; it is 900 at 0, 300 at 1
\* and 600 at 0.5.
C1_ScoreRangeMonotone ==
    fn_pc = "done" =>
        /\ score1 \in 300..900 /\ score2 \in 300..900
        /\ score1 >= score2
        /\ (prob1 = 0 => score1 = 900)
        /\ (prob2 = PDenom => score2 = 300)
        /\ (2 * prob1 = PDenom => score1 = 600)
        /\ (2 * prob2 = PDenom => score2 = 600)

C1_Witness ==
    /\ fn_pc = "done"
    /\ 2 * prob1 = PDenom /\ prob2 = PDenom
    /\ score1 = 600 /\ score2 = 300

\* C2 as stated: a successful /predict response has
\* credit_score = 300 + round(600 * (1 - probability_of_default)).
C2_RoundsToNearest ==
    last_response.status = 200 =>
        last_response.json.credit_score =
            300 + PyRound(600 * (PDenom - last_response.json.probability_of_default),
                          PDenom)

\* C2 amended: a successful /predict response has
\* credit_score = 300 + floor(600 * (1 - probability_of_default)): the fraction
\* is cut off, never rounded up.
C2_Truncates ==
    last_response.status = 200 =>
        LET s == last_response.json.credit_score - 300
            x == 600 * (PDenom - last_response.json.probability_of_default)
        IN  s * PDenom <= x /\ x < (s + 1) * PDenom

\* a response whose exact score has a fraction of a half or more
C2_Witness ==
    /\ last_response.status = 200
    /\ 2 * ((600 * (PDenom - last_response.json.probability_of_default)) % PDenom)
          >= PDenom
    /\ last_response.json.credit_score = 317

\* C3 as stated: for every input and every column list the mapper returns a
\* mapping whose key set is exactly the set of known columns; every column it
\* does not explicitly set is 0; without previous loans the PREV_* entries are 0.
C3_ExactlyKnownColumns ==
    fn_pc = "done" =>
        LET always_set == {"CIBIL_SCORE", "DAYS_BIRTH", "DAYS_EMPLOYED",
                           "AMT_INCOME_TOTAL", "AMT_CREDIT", "AMT_ANNUITY"}
            prev_set == {"PREV_LOAN_COUNT", "PREV_AMT_OUTSTANDING",
                         "PREV_REMAINING_EMI"}
            has_prev == Get(inputs, "has_prev_loans", FALSE)
            set_keys == IF has_prev THEN always_set \cup prev_set ELSE always_set
        IN  /\ DOMAIN full_payload = Range(known_columns)
            /\ \A col \in (DOMAIN full_payload) \ set_keys : IsZero(full_payload[col])
            /\ ~has_prev =>
                 \A col \in prev_set \cap DOMAIN full_payload : IsZero(full_payload[col])

\* the six rules of the engine in their order, each with whether it fires
RuleTable(i) ==
    << [fires |-> i["cibil"] < 650,
        reason |-> ReasonCibil, suggestion |-> SuggestCibil],
       [fires |-> IF i["income"] = 0 THEN TRUE
                  ELSE 2 * (i["annuity"] * 12) > i["income"],
        reason |-> ReasonDti, suggestion |-> SuggestDti],
       [fires |-> i["emp"] < 1,
        reason |-> ReasonEmp, suggestion |-> SuggestEmp],
       [fires |-> i["loan_amount"] > 5 * i["income"],
        reason |-> ReasonLoan, suggestion |-> SuggestLoan],
       [fires |-> Get(i, "has_prev_loans", FALSE) = TRUE
                  /\ Get(i, "prev_loan_count", 0) > 3,
        reason |-> ReasonLoanCount, suggestion |-> SuggestLoanCount],
       [fires |-> Get(i, "has_prev_loans", FALSE) = TRUE
                  /\ Get(i, "prev_outstanding_amt", 0) > 2 * i["income"],
        reason |-> ReasonDebt, suggestion |-> SuggestDebt] >>

RuleFires(r) == r.fires
FiredRules(i) == SelectSeq(RuleTable(i), RuleFires)
RuleReasons == {ReasonCibil, ReasonDti, ReasonEmp, ReasonLoan, ReasonLoanCount, ReasonDebt}
IsRuleReason(r) == r \in RuleReasons

\* C4: reasons and suggestions have equal length and are paired by rule; the
\* rule reasons returned are exactly those of the rules whose condition holds,
\* once each, in the fixed order; no rule's firing suppresses another.
C4_RulesFireInOrder ==
    fn_pc = "done" =>
        LET fired == FiredRules(inputs)
        IN  /\ Len(analysis.reasons) = Len(analysis.suggestions)
            /\ SelectSeq(analysis.reasons, IsRuleReason)
                 = [k \in 1..Len(fired) |-> fired[k].reason]
            /\ fired # <<>> =>
                 /\ analysis.reasons = [k \in 1..Len(fired) |-> fired[k].reason]
                 /\ analysis.suggestions = [k \in 1..Len(fired) |-> fired[k].suggestion]

\* zero income and a low score: the sentinel makes the ratio rule fire along with
\* three others
C4_Witness ==
    /\ fn_pc = "done"
    /\ inputs["income"] = 0 /\ inputs["cibil"] < 650 /\ inputs["emp"] >= 1
    /\ "has_prev_loans" \in DOMAIN inputs /\ inputs["has_prev_loans"]
    /\ inputs["prev_loan_count"] > 3
    /\ analysis.reasons =
         <<ReasonCibil, ReasonDti, ReasonLoan, ReasonLoanCount, ReasonDebt>>

\* C5: the reasons list is never empty; "Overall Profile Risk" is returned iff
\* none of the six rules fired, and then it is the only reason, with exactly one
\* suggestion.
C5_FallbackIffNoRule ==
    fn_pc = "done" =>
        /\ analysis.reasons # <<>>
        /\ (ReasonFallback \in Range(analysis.reasons)) <=> (FiredRules(inputs) = <<>>)
        /\ FiredRules(inputs) = <<>> =>
             /\ analysis.reasons = <<ReasonFallback>>
             /\ analysis.suggestions = <<SuggestFallback>>

C5_Witness ==
    /\ fn_pc = "done"
    /\ FiredRules(inputs) = <<>>
    /\ "has_prev_loans" \in DOMAIN inputs /\ inputs["has_prev_loans"]
    /\ analysis.reasons = <<ReasonFallback>>

\* C6: in the result display the rule engine is invoked iff the returned score
\* is below 670; a score >= 670 shows the eligible verdict, no reasons and the
\* fixed maintenance list; a score < 670 shows the not-eligible verdict with the
\* engine's non-empty reasons and its suggestions; the report holds exactly that
\* verdict, reasons and suggestions.
C6_ThresholdDecidesDisplay ==
    shown.displayed =>
        /\ session.prediction_result.state = "set"
        /\ shown.score = session.prediction_result.value.credit_score
        /\ shown.engine_called <=> (shown.score < 670)
        /\ shown.score >= 670 =>
             /\ shown.eligibility = "Eligible for Loan"
             /\ shown.reasons = <<>>
             /\ shown.suggestions = get_approval_suggestions
        /\ shown.score < 670 =>
             /\ shown.eligibility = "Not Eligible for Loan"
             /\ shown.reasons # <<>>
             /\ Len(shown.suggestions) = Len(shown.reasons)
             /\ \/ FiredRules(session.user_inputs.value) = <<>>
                   /\ shown.reasons = <<ReasonFallback>>
                \/ shown.reasons = [k \in 1..Len(FiredRules(session.user_inputs.value))
                                      |-> FiredRules(session.user_inputs.value)[k].reason]
        /\ shown.report.score = shown.score
        /\ shown.report.eligibility = shown.eligibility
        /\ shown.report.reasons = shown.reasons
        /\ shown.report.suggestions = shown.suggestions

\* the score nearest below the threshold, with reasons from the engine
C6_Witness ==
    /\ shown.displayed
    /\ shown.score = 652
    /\ shown.engine_called
    /\ shown.reasons = <<ReasonCibil, ReasonDti, ReasonLoan>>
    /\ shown.report.reasons_title = "Key Factors for Ineligibility"

C8_ClientErrorStatus ==
    (last_response.status # 0 /\ last_response.status # 200 /\ last_response.body_read) =>
        /\ last_response.status \in 400..499
        /\ last_response.status # NotLoadedResponse.status
        /\ svc_pc = "serving" /\ model.loaded /\ scaler.loaded /\ training_columns.loaded

====
